---- MODULE Spec2Model ----
(***************************************************************************)
(* Model of the alert analysis pipeline of                                 *)
(* cdk/lambda/alert_analyzer (agents/alert_workflow.py and index.py).      *)
(*                                                                         *)
(* Text is a sequence of tokens: a token is one character ("%", "-", a     *)
(* digit, a JSON punctuation mark) or an indivisible word ("Budget").      *)
(* Python's `in` on strings, str.upper, re.search and json.dumps /         *)
(* json.loads are computed on these sequences.                             *)
(***************************************************************************)
EXTENDS Integers, Sequences, FiniteSets, TLC

(***************************************************************************)
(* Bounds of the model                                                     *)
(***************************************************************************)
\* an alarm name is the concatenation of at most MaxNameParts name parts
MaxNameParts == 3
\* a gate list (whitelist, blacklist) holds at most MaxPatterns patterns
MaxPatterns == 1

(***************************************************************************)
(* Text                                                                    *)
(***************************************************************************)
Digits == {"0", "1", "2", "3", "4", "5", "6", "7", "8", "9"}

DigitVal(d) ==
    CASE d = "0" -> 0 [] d = "1" -> 1 [] d = "2" -> 2 [] d = "3" -> 3
      [] d = "4" -> 4 [] d = "5" -> 5 [] d = "6" -> 6 [] d = "7" -> 7
      [] d = "8" -> 8 [] d = "9" -> 9

DigitTok(n) ==
    CASE n = 0 -> "0" [] n = 1 -> "1" [] n = 2 -> "2" [] n = 3 -> "3"
      [] n = 4 -> "4" [] n = 5 -> "5" [] n = 6 -> "6" [] n = 7 -> "7"
      [] n = 8 -> "8" [] n = 9 -> "9"

\* Python `pat in txt` for two strings
Contains(pat, txt) ==
    \E i \in 0..(Len(txt) - Len(pat)) : SubSeq(txt, i + 1, i + Len(pat)) = pat

\* str.upper() of one token
UpperTok(t) ==
    CASE t = "error" -> "ERROR"
      [] t = "Critical" -> "CRITICAL"
      [] t = "Budget" -> "BUDGET"
      [] t = "Monthly" -> "MONTHLY"
      [] t = "Daily" -> "DAILY"
      [] t = "CostReport" -> "COSTREPORT"
      [] t = "lambda" -> "LAMBDA"
      [] t = "s" -> "S"
      [] t = "urgent" -> "URGENT"
      [] t = "-db" -> "-DB"
      [] t = "-cluster" -> "-CLUSTER"
      [] OTHER -> t

Upper(txt) == [i \in 1..Len(txt) |-> UpperTok(txt[i])]

\* int() of a run of decimal digits
RECURSIVE IntOf(_)
IntOf(ds) ==
    IF Len(ds) = 0 THEN 0
    ELSE 10 * IntOf(SubSeq(ds, 1, Len(ds) - 1)) + DigitVal(ds[Len(ds)])

\* str() of a natural number
RECURSIVE StrOfNat(_)
StrOfNat(n) ==
    IF n < 10 THEN <<DigitTok(n)>>
    ELSE Append(StrOfNat(n \div 10), DigitTok(n % 10))

\* the last index of the run of digits that starts at i
RECURSIVE DigitRunEnd(_, _)
DigitRunEnd(txt, i) ==
    IF i < Len(txt) /\ txt[i + 1] \in Digits THEN DigitRunEnd(txt, i + 1) ELSE i

(***************************************************************************)
(* JSON values (what json.loads returns and json.dumps takes)              *)
(***************************************************************************)
None == [type |-> "None"]
JNull == [type |-> "null"]
JNum(n) == [type |-> "num", n |-> n]
JStr(s) == [type |-> "str", s |-> s]
JList(items) == [type |-> "list", items |-> items]
\* a dict keeps its keys in insertion order: a sequence of key/value pairs
JObj(kv) == [type |-> "obj", kv |-> kv]
KV(k, v) == [k |-> k, v |-> v]

IsDict(v) == v.type = "obj"
IsStr(v) == v.type = "str"

\* dict: `key in d` (a key is a text)
HasKey(d, key) == \E i \in 1..Len(d.kv) : d.kv[i].k = key

\* dict: d[key]
Lookup(d, key) == d.kv[CHOOSE i \in 1..Len(d.kv) : d.kv[i].k = key].v

\* dict: d.get(key, default)
Get(d, key, default) == IF HasKey(d, key) THEN Lookup(d, key) ELSE default

Quote == "\""

RECURSIVE JsonDumps(_)
RECURSIVE DumpItems(_, _)
RECURSIVE DumpMembers(_, _)
\* json.dumps with the default separators ", " and ": "
JsonDumps(v) ==
    CASE v.type = "null" -> <<"null">>
      [] v.type = "num" -> StrOfNat(v.n)
      [] v.type = "str" -> <<Quote>> \o v.s \o <<Quote>>
      [] v.type = "list" -> <<"[">> \o DumpItems(v.items, 1) \o <<"]">>
      [] v.type = "obj" -> <<"{">> \o DumpMembers(v.kv, 1) \o <<"}">>

DumpItems(items, i) ==
    IF i > Len(items) THEN <<>>
    ELSE (IF i > 1 THEN <<",", " ">> ELSE <<>>)
         \o JsonDumps(items[i]) \o DumpItems(items, i + 1)

DumpMembers(kv, i) ==
    IF i > Len(kv) THEN <<>>
    ELSE (IF i > 1 THEN <<",", " ">> ELSE <<>>)
         \o <<Quote>> \o kv[i].k \o <<Quote, ":", " ">>
         \o JsonDumps(kv[i].v) \o DumpMembers(kv, i + 1)

\* dict: d[key] = v, a key already present keeps its position
Put(kv, key, v) ==
    IF \E i \in 1..Len(kv) : kv[i].k = key
    THEN [i \in 1..Len(kv) |-> IF kv[i].k = key THEN KV(key, v) ELSE kv[i]]
    ELSE Append(kv, KV(key, v))

ParseOk(v, next) == [ok |-> TRUE, v |-> v, next |-> next]
ParseFail == [ok |-> FALSE]

RECURSIVE SkipWs(_, _)
SkipWs(t, i) == IF i <= Len(t) /\ t[i] = " " THEN SkipWs(t, i + 1) ELSE i

RECURSIVE ParseValue(_, _)
RECURSIVE ParseElements(_, _, _)
RECURSIVE ParseMembers(_, _, _)
\* one JSON value starting at or after position i0
ParseValue(t, i0) ==
    LET i == SkipWs(t, i0) IN
    IF i > Len(t) THEN ParseFail
    ELSE CASE t[i] = "null" -> ParseOk(JNull, i + 1)
           [] t[i] \in Digits ->
                LET e == IF t[i] = "0" THEN i ELSE DigitRunEnd(t, i)
                IN  ParseOk(JNum(IntOf(SubSeq(t, i, e))), e + 1)
           [] t[i] = Quote ->
                IF \E j \in (i + 1)..Len(t) : t[j] = Quote
                THEN LET j == CHOOSE j \in (i + 1)..Len(t) :
                                 /\ t[j] = Quote
                                 /\ \A k \in (i + 1)..(j - 1) : t[k] # Quote
                     IN  ParseOk(JStr(SubSeq(t, i + 1, j - 1)), j + 1)
                ELSE ParseFail
           [] t[i] = "[" -> ParseElements(t, i + 1, <<>>)
           [] t[i] = "{" -> ParseMembers(t, i + 1, <<>>)
           [] OTHER -> ParseFail

\* the elements of a list, after "[" or after ","
ParseElements(t, i0, acc) ==
    LET i == SkipWs(t, i0) IN
    IF i <= Len(t) /\ t[i] = "]" /\ acc = <<>> THEN ParseOk(JList(<<>>), i + 1)
    ELSE LET r == ParseValue(t, i) IN
         IF ~r.ok THEN ParseFail
         ELSE LET j == SkipWs(t, r.next) IN
              IF j > Len(t) THEN ParseFail
              ELSE IF t[j] = "," THEN ParseElements(t, j + 1, Append(acc, r.v))
              ELSE IF t[j] = "]" THEN ParseOk(JList(Append(acc, r.v)), j + 1)
              ELSE ParseFail

\* the members of an object, after "{" or after ","
ParseMembers(t, i0, acc) ==
    LET i == SkipWs(t, i0) IN
    IF i <= Len(t) /\ t[i] = "}" /\ acc = <<>> THEN ParseOk(JObj(<<>>), i + 1)
    ELSE IF i > Len(t) \/ t[i] # Quote THEN ParseFail
    ELSE LET key == ParseValue(t, i) IN
         IF ~key.ok THEN ParseFail
         ELSE LET c == SkipWs(t, key.next) IN
              IF c > Len(t) \/ t[c] # ":" THEN ParseFail
              ELSE LET r == ParseValue(t, c + 1) IN
                   IF ~r.ok THEN ParseFail
                   ELSE LET j == SkipWs(t, r.next)
                            kv == Put(acc, key.v.s, r.v)
                        IN  IF j > Len(t) THEN ParseFail
                            ELSE IF t[j] = "," THEN ParseMembers(t, j + 1, kv)
                            ELSE IF t[j] = "}" THEN ParseOk(JObj(kv), j + 1)
                            ELSE ParseFail

\* json.loads: ok = FALSE stands for json.JSONDecodeError
JsonLoads(t) ==
    LET r == ParseValue(t, 1) IN
    IF r.ok /\ SkipWs(t, r.next) = Len(t) + 1 THEN [ok |-> TRUE, v |-> r.v]
    ELSE [ok |-> FALSE]

(***************************************************************************)
(* Python operators on values of any type                                  *)
(***************************************************************************)
\* `x in c` raises TypeError when c is a number or None
InRaises(c) == c.type \in {"num", "null"}

\* `x in c` for a text x: key of a dict, substring of a str, element of a list
In(x, c) ==
    CASE c.type = "obj" -> HasKey(c, x)
      [] c.type = "str" -> Contains(x, c.s)
      [] c.type = "list" -> \E i \in 1..Len(c.items) : c.items[i] = JStr(x)
      [] OTHER -> FALSE

Text(s) == JStr(s)
EmptyDict == <<>>

(***************************************************************************)
(* Classifier                                                              *)
(***************************************************************************)
Return(t, m, ch) ==
    [raised |-> FALSE, alert_type |-> t, metadata |-> m, channel |-> ch]
Raise(e) == [raised |-> TRUE, exc |-> e]

\* re.search(r'(\d+)%', alarm_name): the leftmost digit run followed by "%"
ThresholdMatches(name, i) ==
    /\ name[i] \in Digits
    /\ DigitRunEnd(name, i) < Len(name)
    /\ name[DigitRunEnd(name, i) + 1] = "%"

\* the threshold taken from the last "<digits>%" of the name, not the first
_extract_threshold_LastMatch(name) ==
    IF \E i \in 1..Len(name) : ThresholdMatches(name, i)
    THEN LET i == CHOOSE i \in 1..Len(name) :
                      /\ ThresholdMatches(name, i)
                      /\ (i = 1 \/ name[i - 1] \notin Digits)
                      /\ \A j \in (DigitRunEnd(name, i) + 1)..Len(name) :
                            ~ThresholdMatches(name, j)
         IN  IntOf(SubSeq(name, i, DigitRunEnd(name, i)))
    ELSE 0

_extract_threshold(name) ==
    IF \E i \in 1..Len(name) : ThresholdMatches(name, i)
    THEN LET i == CHOOSE i \in 1..Len(name) :
                      /\ ThresholdMatches(name, i)
                      /\ \A j \in 1..(i - 1) : ~ThresholdMatches(name, j)
         IN  IntOf(SubSeq(name, i, DigitRunEnd(name, i)))
    ELSE 0

\* EMR events with the FAILED test made before TERMINATED_WITH_ERRORS
ClassifyEMR_FailedFirst(message) ==
    IF ~In(<<"detail-type">>, message) THEN Return("custom_event", EmptyDict, "heartbeat")
    ELSE IF ~IsDict(message) THEN Raise("TypeError")
    ELSE LET detail_type == Lookup(message, <<"detail-type">>) IN
      IF InRaises(detail_type) THEN Raise("TypeError")
      ELSE IF ~In(<<"EMR">>, detail_type)
      THEN Return("custom_event", EmptyDict, "heartbeat")
      ELSE LET detail == Get(message, <<"detail">>, JObj(<<>>)) IN
        IF ~IsDict(detail) THEN Raise("AttributeError")
        ELSE LET state == Get(detail, <<"state">>, Text(<<>>))
                 cluster_id == Get(detail, <<"clusterId">>, Text(<<>>))
             IN
          IF InRaises(state) THEN Raise("TypeError")
          ELSE IF In(<<"FAILED">>, state)
          THEN Return("emr_step_failure",
                      [cluster_id |-> cluster_id, state |-> state], "critical")
          ELSE IF In(<<"TERMINATED_WITH_ERRORS">>, state)
          THEN Return("emr_cluster_failure",
                      [cluster_id |-> cluster_id, state |-> state], "critical")
          ELSE Return("custom_event", EmptyDict, "heartbeat")

\* lines 182-202: EMR events, then the default
ClassifyEMR(message) ==
    IF ~In(<<"detail-type">>, message) THEN Return("custom_event", EmptyDict, "heartbeat")
    ELSE IF ~IsDict(message) THEN Raise("TypeError")
    ELSE LET detail_type == Lookup(message, <<"detail-type">>) IN
      IF InRaises(detail_type) THEN Raise("TypeError")
      ELSE IF ~In(<<"EMR">>, detail_type)
      THEN Return("custom_event", EmptyDict, "heartbeat")
      ELSE LET detail == Get(message, <<"detail">>, JObj(<<>>)) IN
        IF ~IsDict(detail) THEN Raise("AttributeError")
        ELSE LET state == Get(detail, <<"state">>, Text(<<>>))
                 cluster_id == Get(detail, <<"clusterId">>, Text(<<>>))
             IN
          IF InRaises(state) THEN Raise("TypeError")
          ELSE IF In(<<"TERMINATED_WITH_ERRORS">>, state)
          THEN Return("emr_cluster_failure",
                      [cluster_id |-> cluster_id, state |-> state], "critical")
          ELSE IF In(<<"FAILED">>, state)
          THEN Return("emr_step_failure",
                      [cluster_id |-> cluster_id, state |-> state], "critical")
          ELSE Return("custom_event", EmptyDict, "heartbeat")

\* CloudWatch alarms with the keywords looked for in the name as written
ClassifyAlarm_CaseSensitive(message) ==
    IF In(<<"AlarmName">>, message) /\ In(<<"NewStateValue">>, message)
    THEN IF ~IsDict(message) THEN Raise("TypeError")
         ELSE LET alarm_name == Lookup(message, <<"AlarmName">>)
                  state == Lookup(message, <<"NewStateValue">>)
                  reason == Get(message, <<"NewStateReason">>, Text(<<>>))
                  meta == [alarm_name |-> alarm_name, state |-> state,
                           reason |-> reason]
              IN
           IF ~IsStr(alarm_name) THEN Raise("AttributeError")
           ELSE IF \/ Contains(<<"ERROR">>, alarm_name.s)
                   \/ Contains(<<"CRITICAL">>, alarm_name.s)
           THEN Return("cloudwatch_alarm_error", meta, "critical")
           ELSE Return("cloudwatch_alarm_warning", meta, "heartbeat")
    ELSE ClassifyEMR(message)

\* lines 162-180: CloudWatch alarms
ClassifyAlarm(message) ==
    IF In(<<"AlarmName">>, message) /\ In(<<"NewStateValue">>, message)
    THEN IF ~IsDict(message) THEN Raise("TypeError")
         ELSE LET alarm_name == Lookup(message, <<"AlarmName">>)
                  state == Lookup(message, <<"NewStateValue">>)
                  reason == Get(message, <<"NewStateReason">>, Text(<<>>))
                  meta == [alarm_name |-> alarm_name, state |-> state,
                           reason |-> reason]
              IN
           IF ~IsStr(alarm_name) THEN Raise("AttributeError")
           ELSE IF \/ Contains(<<"ERROR">>, Upper(alarm_name.s))
                   \/ Contains(<<"CRITICAL">>, Upper(alarm_name.s))
           THEN Return("cloudwatch_alarm_error", meta, "critical")
           ELSE Return("cloudwatch_alarm_warning", meta, "heartbeat")
    ELSE ClassifyEMR(message)

\* lines 158-160: daily cost report
ClassifyCostReport(message) ==
    IF /\ In(<<"AlarmName">>, message)
       /\ In(<<"Daily", "CostReport">>, Get(message, <<"AlarmName">>, Text(<<>>)))
    THEN Return("daily_cost_report", EmptyDict, "heartbeat")
    ELSE ClassifyAlarm(message)

\* budget alerts where a monthly alarm below 80 is the default event
_classify_message_Below80Default(message) ==
    IF InRaises(message) THEN Raise("TypeError")
    ELSE IF ~In(<<"AlarmName">>, message) THEN ClassifyCostReport(message)
    ELSE IF ~IsDict(message) THEN Raise("AttributeError")
    ELSE LET alarm_name == Lookup(message, <<"AlarmName">>) IN
      IF InRaises(alarm_name) THEN Raise("TypeError")
      ELSE IF ~In(<<"Budget">>, alarm_name) THEN ClassifyCostReport(message)
      ELSE IF In(<<"Monthly">>, alarm_name)
      THEN IF Get(message, <<"NewStateValue">>, None) = Text(<<"ALARM">>)
           THEN IF ~IsStr(alarm_name) THEN Raise("TypeError")
                ELSE LET threshold == _extract_threshold(alarm_name.s) IN
                  IF threshold >= 100
                  THEN Return("budget_critical",
                              [threshold |-> JNum(threshold)], "critical")
                  ELSE IF threshold >= 80
                  THEN Return("budget_warning",
                              [threshold |-> JNum(threshold)], "heartbeat")
                  ELSE Return("custom_event", EmptyDict, "heartbeat")
           ELSE ClassifyCostReport(message)
      ELSE IF In(<<"Daily">>, alarm_name)
      THEN Return("daily_budget_exceeded", EmptyDict, "heartbeat")
      ELSE ClassifyCostReport(message)

\* budget alerts where the daily rule is an `if` of its own, not an `elif`
_classify_message_DailyNotElif(message) ==
    IF InRaises(message) THEN Raise("TypeError")
    ELSE IF ~In(<<"AlarmName">>, message) THEN ClassifyCostReport(message)
    ELSE IF ~IsDict(message) THEN Raise("AttributeError")
    ELSE LET alarm_name == Lookup(message, <<"AlarmName">>)
             daily == IF In(<<"Daily">>, alarm_name)
                      THEN Return("daily_budget_exceeded", EmptyDict, "heartbeat")
                      ELSE ClassifyCostReport(message)
         IN
      IF InRaises(alarm_name) THEN Raise("TypeError")
      ELSE IF ~In(<<"Budget">>, alarm_name) THEN ClassifyCostReport(message)
      ELSE IF In(<<"Monthly">>, alarm_name)
      THEN IF Get(message, <<"NewStateValue">>, None) = Text(<<"ALARM">>)
           THEN IF ~IsStr(alarm_name) THEN Raise("TypeError")
                ELSE LET threshold == _extract_threshold(alarm_name.s) IN
                  IF threshold >= 100
                  THEN Return("budget_critical",
                              [threshold |-> JNum(threshold)], "critical")
                  ELSE IF threshold >= 80
                  THEN Return("budget_warning",
                              [threshold |-> JNum(threshold)], "heartbeat")
                  ELSE daily
           ELSE daily
      ELSE daily

\* lines 145-156: budget alerts
_classify_message(message) ==
    IF InRaises(message) THEN Raise("TypeError")
    ELSE IF ~In(<<"AlarmName">>, message) THEN ClassifyCostReport(message)
    ELSE IF ~IsDict(message) THEN Raise("AttributeError")
    ELSE LET alarm_name == Lookup(message, <<"AlarmName">>) IN
      IF InRaises(alarm_name) THEN Raise("TypeError")
      ELSE IF ~In(<<"Budget">>, alarm_name) THEN ClassifyCostReport(message)
      ELSE IF In(<<"Monthly">>, alarm_name)
      THEN IF Get(message, <<"NewStateValue">>, None) = Text(<<"ALARM">>)
           THEN IF ~IsStr(alarm_name) THEN Raise("TypeError")
                ELSE LET threshold == _extract_threshold(alarm_name.s) IN
                  IF threshold >= 100
                  THEN Return("budget_critical",
                              [threshold |-> JNum(threshold)], "critical")
                  ELSE IF threshold >= 80
                  THEN Return("budget_warning",
                              [threshold |-> JNum(threshold)], "heartbeat")
                  ELSE ClassifyCostReport(message)
           ELSE ClassifyCostReport(message)
      ELSE IF In(<<"Daily">>, alarm_name)
      THEN Return("daily_budget_exceeded", EmptyDict, "heartbeat")
      ELSE ClassifyCostReport(message)

(***************************************************************************)
(* Analysis gate                                                           *)
(***************************************************************************)
\* some pattern of the list is a substring of the serialized message
AnyPatternIn(patterns, message_str) ==
    \E i \in 1..Len(patterns) : Contains(patterns[i], message_str)

\* an absent rule taken as true
RuleFor_DefaultTrue(rules, alert_type) ==
    IF alert_type \in DOMAIN rules THEN rules[alert_type] ELSE TRUE

\* rules.get('analyze_' + alert_type, False): rules maps alert types to
\* booleans, the prefix analyze_ is left out of the keys
RuleFor(rules, alert_type) ==
    IF alert_type \in DOMAIN rules THEN rules[alert_type] ELSE FALSE

\* the gate with the deny-list consulted before the allow-list
_should_analyze_BlacklistFirst(ai_config, alert_type, message) ==
    IF ~ai_config.enabled THEN FALSE
    ELSE LET message_str == JsonDumps(message) IN
      IF AnyPatternIn(ai_config.blacklist, message_str) THEN FALSE
      ELSE IF AnyPatternIn(ai_config.whitelist, message_str) THEN TRUE
      ELSE RuleFor(ai_config.rules, alert_type)

\* the gate with the rule table consulted before the deny-list
_should_analyze_RulesFirst(ai_config, alert_type, message) ==
    IF ~ai_config.enabled THEN FALSE
    ELSE LET message_str == JsonDumps(message) IN
      IF AnyPatternIn(ai_config.whitelist, message_str) THEN TRUE
      ELSE IF RuleFor(ai_config.rules, alert_type) THEN TRUE
      ELSE IF AnyPatternIn(ai_config.blacklist, message_str) THEN FALSE
      ELSE FALSE

\* the gate with the allow-list consulted before the global switch
_should_analyze_WhitelistBeforeSwitch(ai_config, alert_type, message) ==
    LET message_str == JsonDumps(message) IN
    IF AnyPatternIn(ai_config.whitelist, message_str) THEN TRUE
    ELSE IF ~ai_config.enabled THEN FALSE
    ELSE IF AnyPatternIn(ai_config.blacklist, message_str) THEN FALSE
    ELSE RuleFor(ai_config.rules, alert_type)

_should_analyze(ai_config, alert_type, message) ==
    IF ~ai_config.enabled THEN FALSE
    ELSE LET message_str == JsonDumps(message) IN
      IF AnyPatternIn(ai_config.whitelist, message_str) THEN TRUE
      ELSE IF AnyPatternIn(ai_config.blacklist, message_str) THEN FALSE
      ELSE RuleFor(ai_config.rules, alert_type)

(***************************************************************************)
(* Pipeline state (AlertState) and the locals of classify_alert            *)
(***************************************************************************)
VARIABLES
    pc,               \* the node the graph runs next, "END" or "raised"
    config,           \* self.config['ai_analysis']
    raw_event, alert_type, alert_metadata, context, analysis_result,
    slack_message, slack_channel, error,
    message,          \* classify_alert: the message that was classified
    classified,       \* classify_alert: what _classify_message returned
    should_analyze,   \* classify_alert: what the gate returned
    exception,        \* the exception that left the graph, "None" if none
    environ,          \* os.environ: the webhook variables
    tool_calls,       \* the connectors invoked, in order
    llm_calls,        \* the number of self.llm.invoke calls
    http_posts,       \* the requests.post calls: the url of each
    post_outcome,     \* what requests.post did: a status or an exception
    tool_input,       \* a connector called on its own: the call
    tool_output,      \* a connector called on its own: what came back
    response          \* what lambda_handler returned, None before

vars == <<pc, config, raw_event, alert_type, alert_metadata, context,
          analysis_result, slack_message, slack_channel, error,
          message, classified, should_analyze, exception,
          environ, tool_calls, llm_calls, http_posts, post_outcome, response,
          tool_input, tool_output>>

\* what only a connector call on its own touches
tool_vars == <<tool_input, tool_output>>

\* what only the later nodes and the handler touch
later_vars == <<environ, tool_calls, llm_calls, http_posts, post_outcome,
               response, tool_input, tool_output>>

\* the graph with the formatter left out after the analyser
NextNode_SkipsFormat(node) ==
    CASE node = "classify_alert" -> "gather_context"
      [] node = "gather_context" -> "analyze_with_llm"
      [] node = "analyze_with_llm" -> "post_to_slack"
      [] node = "format_response" -> "post_to_slack"
      [] node = "post_to_slack" -> "END"

\* lines 84-92: the edges of the graph
NextNode(node) ==
    CASE node = "classify_alert" -> "gather_context"
      [] node = "gather_context" -> "analyze_with_llm"
      [] node = "analyze_with_llm" -> "format_response"
      [] node = "format_response" -> "post_to_slack"
      [] node = "post_to_slack" -> "END"

\* a passthrough sent to the heartbeat channel
RoutedChannel_PassthroughToHeartbeat(triple, analyze) ==
    IF analyze THEN triple.channel ELSE "heartbeat"

\* lines 126 and 133: the channel stored is the classified one on both
\* branches of the gate
RoutedChannel(triple, analyze) == triple.channel

\* the envelope kept as the message when the inner message does not parse
ExtractMessage_KeepsEnvelope(event) ==
    IF ~(HasKey(event, <<"Records">>)
         /\ Len(Lookup(event, <<"Records">>).items) > 0)
    THEN [raised |-> FALSE, message |-> event]
    ELSE LET sns_record == Lookup(event, <<"Records">>).items[1] IN
      IF InRaises(sns_record) THEN Raise("TypeError")
      ELSE IF ~In(<<"Sns">>, sns_record) THEN [raised |-> FALSE, message |-> event]
      ELSE IF ~IsDict(sns_record) THEN Raise("TypeError")
      ELSE IF ~IsDict(Lookup(sns_record, <<"Sns">>)) THEN Raise("AttributeError")
      ELSE LET message_body ==
                 Get(Lookup(sns_record, <<"Sns">>), <<"Message">>, Text(<<"{", "}">>))
           IN
        IF ~IsStr(message_body) THEN Raise("TypeError")
        ELSE LET parsed == JsonLoads(message_body.s) IN
          IF parsed.ok THEN [raised |-> FALSE, message |-> parsed.v]
          ELSE [raised |-> FALSE, message |-> event]

\* lines 106-115: the message of an envelope
ExtractMessage(event) ==
    IF ~(HasKey(event, <<"Records">>)
         /\ Len(Lookup(event, <<"Records">>).items) > 0)
    THEN [raised |-> FALSE, message |-> event]
    ELSE LET sns_record == Lookup(event, <<"Records">>).items[1] IN
      IF InRaises(sns_record) THEN Raise("TypeError")
      ELSE IF ~In(<<"Sns">>, sns_record) THEN [raised |-> FALSE, message |-> event]
      ELSE IF ~IsDict(sns_record) THEN Raise("TypeError")
      ELSE IF ~IsDict(Lookup(sns_record, <<"Sns">>)) THEN Raise("AttributeError")
      ELSE LET message_body ==
                 Get(Lookup(sns_record, <<"Sns">>), <<"Message">>, Text(<<"{", "}">>))
           IN
        IF ~IsStr(message_body) THEN Raise("TypeError")
        ELSE LET parsed == JsonLoads(message_body.s) IN
          IF parsed.ok THEN [raised |-> FALSE, message |-> parsed.v]
          ELSE [raised |-> FALSE,
                message |-> JObj(<<KV(<<"RawMessage">>, message_body)>>)]

\* node 1 (lines 94-136)
classify_alert ==
    /\ pc = "classify_alert"
    /\ LET extracted == ExtractMessage(raw_event) IN
       IF extracted.raised
       THEN /\ pc' = "raised"
            /\ exception' = extracted.exc
            /\ UNCHANGED <<alert_type, alert_metadata, slack_channel,
                           message, classified, should_analyze>>
       ELSE LET triple == _classify_message(extracted.message) IN
         IF triple.raised
         THEN /\ pc' = "raised"
              /\ exception' = triple.exc
              /\ message' = extracted.message
              /\ UNCHANGED <<alert_type, alert_metadata, slack_channel,
                             classified, should_analyze>>
         ELSE LET analyze == _should_analyze(config, triple.alert_type,
                                             extracted.message)
              IN /\ pc' = NextNode("classify_alert")
                 /\ message' = extracted.message
                 /\ classified' = triple
                 /\ should_analyze' = analyze
                 /\ alert_type' = IF analyze THEN triple.alert_type
                                  ELSE "passthrough"
                 /\ alert_metadata' = triple.metadata
                 /\ slack_channel' = RoutedChannel(triple, analyze)
                 /\ exception' = exception
    /\ context' = IF pc' # "raised" /\ ~should_analyze' THEN None
                  ELSE context
    /\ analysis_result' = IF pc' # "raised" /\ ~should_analyze' THEN None
                          ELSE analysis_result
    /\ UNCHANGED <<config, raw_event, slack_message, error>>
    /\ UNCHANGED later_vars

(***************************************************************************)
(* Inputs: envelopes                                                       *)
(***************************************************************************)
\* the pieces alarm names are built from
NameParts ==
    { <<"Monthly", "Budget">>, <<"Daily", "Budget">>, <<"Budget">>,
      <<"Daily", "CostReport">>,
      <<"-", "1", "0", "0", "%">>, <<"-", "9", "9", "%">>,
      <<"-", "8", "0", "%">>, <<"-", "7", "9", "%">>,
      <<"-", "error">>, <<"-", "Critical">>,
      <<"lambda", "-", "error", "s">>, <<"urgent", "-db", "-cluster">> }

RECURSIVE NamesOf(_)
NamesOf(n) ==
    IF n = 0 THEN {<<>>}
    ELSE NamesOf(n - 1) \cup {a \o p : a \in NamesOf(n - 1), p \in NameParts}

Names == NamesOf(MaxNameParts)

\* an optional member of a dict: absent when v = None
Opt(k, v) == IF v = None THEN <<>> ELSE <<KV(<<k>>, v)>>

StateValues == {None, Text(<<"ALARM">>), Text(<<"OK">>)}

\* direct metric-alarm messages with every name
AlarmMessages ==
    { JObj(<<KV(<<"AlarmName">>, Text(name))>> \o Opt("NewStateValue", sv))
        : name \in Names, sv \in StateValues }

\* alarm messages with a reason, and with values that are not strings
OddAlarmMessages ==
    { JObj(<<>>),
      JObj(<<KV(<<"AlarmName">>, Text(<<"urgent", "-db", "-cluster", "-", "error">>)),
             KV(<<"NewStateValue">>, Text(<<"ALARM">>)),
             KV(<<"NewStateReason">>, Text(<<"Threshold Crossed">>))>>),
      JObj(<<KV(<<"AlarmName">>, Text(<<"urgent">>)),
             KV(<<"NewStateValue">>, Text(<<"OK">>))>>),
      JObj(<<KV(<<"AlarmName">>, Text(<<"Monthly", "Budget", "-", "1", "0", "0", "%">>)),
             KV(<<"NewStateValue">>, Text(<<"ALARM">>))>>),
      JObj(<<KV(<<"AlarmName">>, JNum(5)),
             KV(<<"NewStateValue">>, Text(<<"ALARM">>))>>),
      JObj(<<KV(<<"AlarmName">>, JNull)>>),
      JObj(<<KV(<<"AlarmName">>, JList(<<Text(<<"Budget">>)>>)),
             KV(<<"NewStateValue">>, Text(<<"ALARM">>))>>),
      JObj(<<KV(<<"AlarmName">>, Text(<<"lambda", "-", "duration">>)),
             KV(<<"NewStateValue">>, JNum(5))>>),
      JObj(<<KV(<<"NewStateValue">>, Text(<<"ALARM">>))>>) }

DetailTypes ==
    { Text(<<"EMR", " ", "Cluster State Change">>),
      Text(<<"EC2 Instance State-change Notification">>),
      JNum(5) }

Details ==
    { None,
      JObj(<<>>),
      JObj(<<KV(<<"state">>, Text(<<"TERMINATED_WITH_ERRORS">>)),
             KV(<<"clusterId">>, Text(<<"j-ABC">>))>>),
      JObj(<<KV(<<"state">>, Text(<<"STEP_", "FAILED">>)),
             KV(<<"clusterId">>, Text(<<"j-ABC">>))>>),
      JObj(<<KV(<<"state">>, Text(<<"FAILED", "_", "TERMINATED_WITH_ERRORS">>))>>),
      JObj(<<KV(<<"state">>, Text(<<"RUNNING">>)),
             KV(<<"clusterId">>, Text(<<"j-ABC">>))>>),
      JObj(<<KV(<<"state">>, JNum(5))>>),
      Text(<<"TERMINATED_WITH_ERRORS">>) }

\* what an event-bus message may carry besides detail-type and detail
AlarmPrefixes ==
    { <<>>,
      <<KV(<<"AlarmName">>, Text(<<"urgent", "-db", "-cluster">>))>>,
      <<KV(<<"AlarmName">>, Text(<<"urgent">>)),
        KV(<<"NewStateValue">>, Text(<<"ALARM">>))>> }

EventMessages ==
    { JObj(pre \o <<KV(<<"detail-type">>, dt)>> \o Opt("detail", d))
        : pre \in AlarmPrefixes, dt \in DetailTypes, d \in Details }

\* JSON values that are not objects
NonObjects ==
    { JNum(5), JNull, Text(<<"hello">>), Text(<<"AlarmName">>),
      JList(<<>>), JList(<<Text(<<"AlarmName">>)>>),
      JList(<<Text(<<"detail-type">>)>>) }

\* texts json.loads rejects
InvalidBodies ==
    { <<>>, <<"Budget", " ", "alert">>, <<"{", Quote, "AlarmName">>,
      <<"urgent", "-db", "-cluster", " ", "down">>,
      <<"{", Quote, "AlarmName", Quote, ":", "0", "1", "}">> }

\* valid JSON, written without the spaces json.dumps puts in
CompactBodies ==
    { <<"{", Quote, "AlarmName", Quote, ":", Quote, "urgent", "-db", Quote, ",",
        Quote, "NewStateValue", Quote, ":", Quote, "ALARM", Quote, "}">>,
      <<"{", "}">> }

\* the notification wrapper: {"Records": [{"Sns": {"Message": body}}]}
Wrapper(sns) ==
    JObj(<<KV(<<"Records">>, JList(<<JObj(<<KV(<<"Sns">>, sns)>>)>>))>>)

WrapBody(body) == Wrapper(JObj(<<KV(<<"Message">>, Text(body))>>))

\* wrappers without a usable Message
OddWrappers ==
    { JObj(<<KV(<<"Records">>, JList(<<>>))>>),
      JObj(<<KV(<<"Records">>, JList(<<JObj(<<>>)>>))>>),
      Wrapper(JObj(<<>>)) }

FocusMessages == OddAlarmMessages \cup EventMessages

FocusEnvelopes ==
    FocusMessages
      \cup {WrapBody(JsonDumps(m)) : m \in FocusMessages \cup NonObjects}
      \cup {WrapBody(b) : b \in InvalidBodies \cup CompactBodies}
      \cup OddWrappers

(***************************************************************************)
(* Inputs: gate configurations                                             *)
(***************************************************************************)
AlertTypes ==
    { "budget_critical", "budget_warning", "daily_budget_exceeded",
      "daily_cost_report", "cloudwatch_alarm_error",
      "cloudwatch_alarm_warning", "emr_cluster_failure", "emr_step_failure",
      "custom_event" }

Patterns == { <<"urgent", "-db">>, <<"urgent">>, <<"ALARM">> }

RECURSIVE ListsOf(_, _)
\* the lists of at most n elements of S
ListsOf(S, n) ==
    IF n = 0 THEN {<<>>}
    ELSE ListsOf(S, n - 1) \cup {Append(l, x) : l \in ListsOf(S, n - 1), x \in S}

PatternLists == ListsOf(Patterns, MaxPatterns)

RuleTables ==
    { <<>>,
      [t \in AlertTypes |-> TRUE],
      [t \in {"cloudwatch_alarm_error", "custom_event", "budget_critical"}
          |-> t = "cloudwatch_alarm_error"] }

AIConfig(enabled, whitelist, blacklist, rules) ==
    [enabled |-> enabled, whitelist |-> whitelist, blacklist |-> blacklist,
     rules |-> rules]

Configs ==
    { AIConfig(e, w, b, r) : e \in BOOLEAN, w \in PatternLists,
                             b \in PatternLists, r \in RuleTables }

\* index.py lines 42-48: the configuration used when CONFIG_JSON has none
FallbackConfig == AIConfig(TRUE, <<>>, <<>>, <<>>)

\* the configurations every alarm name is classified under
NameConfigs ==
    { FallbackConfig,
      AIConfig(TRUE, <<>>, <<>>, [t \in AlertTypes |-> TRUE]),
      AIConfig(TRUE, <<<<"urgent", "-db">>>>, <<<<"Budget">>>>,
               [t \in AlertTypes |-> t = "cloudwatch_alarm_warning"]) }

(***************************************************************************)
(* The classification stage on its own                                     *)
(***************************************************************************)
InitState ==
    /\ pc = "classify_alert"
    /\ alert_type = "None"
    /\ alert_metadata = None
    /\ context = None
    /\ analysis_result = None
    /\ slack_message = None
    /\ slack_channel = "None"
    /\ error = "None"
    /\ message = None
    /\ classified = None
    /\ should_analyze = FALSE
    /\ exception = "None"
    /\ tool_calls = <<>>
    /\ llm_calls = 0
    /\ http_posts = <<>>
    /\ post_outcome = None
    /\ response = None
    /\ tool_input = None
    /\ tool_output = None

\* both webhooks configured
FullEnviron ==
    [v \in {"SLACK_CRITICAL_WEBHOOK", "SLACK_HEARTBEAT_WEBHOOK"} |->
        IF v = "SLACK_CRITICAL_WEBHOOK" THEN "https://hooks/critical"
        ELSE "https://hooks/heartbeat"]

InitClassify ==
    /\ \/ raw_event \in AlarmMessages /\ config \in NameConfigs
       \/ raw_event \in FocusEnvelopes /\ config \in Configs
    /\ environ = FullEnviron
    /\ InitState

SpecClassify == InitClassify /\ [][classify_alert]_vars

(***************************************************************************)
(* Connectors (tools/*.py), each called on its own                         *)
(***************************************************************************)
Max(a, b) == IF a > b THEN a ELSE b

\* the clamp without its lower bound
Clamp_NoLowerBound(x, hi) == IF x < hi THEN x ELSE hi

\* min(max(1, x), hi)
Clamp(x, hi) == IF Max(1, x) < hi THEN Max(1, x) ELSE hi

\* the numeric parameters of each connector and the upper bound each is
\* clamped to
Limits ==
    [get_cost_breakdown     |-> [days |-> 90],
     get_service_costs      |-> [days |-> 90, top |-> 20],
     get_budget_status      |-> <<>>,
     get_cost_forecast      |-> <<>>,
     get_lambda_metrics     |-> [hours |-> 168],
     get_lambda_errors      |-> [limit |-> 100],
     get_ec2_instances      |-> <<>>,
     get_emr_cluster_status |-> <<>>,
     get_cloudwatch_logs    |-> [hours |-> 72, limit |-> 100],
     search_logs            |-> [hours |-> 168],
     get_resource_tags      |-> [limit |-> 50],
     get_recent_changes     |-> [hours |-> 168]]

Tools == DOMAIN Limits

\* the integers the parameters are drawn from: below, at and above each bound
ParamValues ==
    {-3, 0, 1, 2, 19, 20, 21, 50, 51, 72, 73, 90, 91, 100, 101, 168, 169, 1000}

\* a call: the connector, its numeric arguments, whether boto3.client(...)
\* returns a client and whether the calls made on the client succeed
ToolInputs ==
    UNION { { [tool |-> t, args |-> a, client |-> c, api |-> ok]
                : a \in [DOMAIN Limits[t] -> ParamValues],
                  c \in BOOLEAN, ok \in BOOLEAN } : t \in Tools }

\* the parameters after the min(max(1, x), N) lines of the connector
Clamped(t, args) ==
    [p \in DOMAIN Limits[t] |-> Clamp(args[p], Limits[t][p])]

\* one connector call: the client is built before the try block, so its
\* exception leaves the connector; the parameters are clamped next; a failure
\* of a call on the client is caught and returned as a map with an error
InvokeTool(input) ==
    IF ~input.client
    THEN [raised |-> TRUE, exc |-> "client error"]
    ELSE [raised |-> FALSE,
          query |-> Clamped(input.tool, input.args),
          result |-> [error |-> ~input.api]]

invoke_tool ==
    /\ pc = "tool"
    /\ pc' = "tool_returned"
    /\ tool_output' = InvokeTool(tool_input)
    /\ UNCHANGED <<config, raw_event, alert_type, alert_metadata, context,
                   analysis_result, slack_message, slack_channel, error,
                   message, classified, should_analyze, exception, environ,
                   tool_calls, llm_calls, http_posts, post_outcome, response,
                   tool_input>>

InitTools ==
    /\ pc = "tool"
    /\ tool_input \in ToolInputs
    /\ tool_output = None
    /\ raw_event = JObj(<<>>)
    /\ config = FallbackConfig
    /\ environ = FullEnviron
    /\ alert_type = "None"
    /\ alert_metadata = None
    /\ context = None
    /\ analysis_result = None
    /\ slack_message = None
    /\ slack_channel = "None"
    /\ error = "None"
    /\ message = None
    /\ classified = None
    /\ should_analyze = FALSE
    /\ exception = "None"
    /\ tool_calls = <<>>
    /\ llm_calls = 0
    /\ http_posts = <<>>
    /\ post_outcome = None
    /\ response = None

SpecTools == InitTools /\ [][invoke_tool]_vars

(***************************************************************************)
(* Context aggregator                                                      *)
(***************************************************************************)
\* str.lower() of one token
LowerTok(t) ==
    CASE t = "Critical" -> "critical"
      [] t = "Budget" -> "budget"
      [] t = "Monthly" -> "monthly"
      [] t = "Daily" -> "daily"
      [] t = "CostReport" -> "costreport"
      [] OTHER -> t

Lower(txt) == [i \in 1..Len(txt) |-> LowerTok(txt[i])]

\* `word in alert_type` for the words gather_context looks for
TypeHas(word, t) ==
    CASE word = "budget" ->
           t \in {"budget_critical", "budget_warning", "daily_budget_exceeded"}
      [] word = "cost" -> t = "daily_cost_report"
      [] word = "cloudwatch_alarm" ->
           t \in {"cloudwatch_alarm_error", "cloudwatch_alarm_warning"}
      [] word = "emr" -> t \in {"emr_cluster_failure", "emr_step_failure"}

\* the words the function-name pattern ends with
MetricWords == {<<"error", "s">>, <<"duration">>, <<"throttles">>}

\* lines 312-318: re.search(r'([a-zA-Z0-9_-]+)[-_]?(errors|duration|throttles)')
\* finds a function name: one of the words, with a character of the class
\* right before it ("%" is the one token outside the class)
FunctionNameFound(name) ==
    \E w \in MetricWords : \E i \in 2..(Len(name) - Len(w) + 1) :
        /\ SubSeq(Lower(name), i, i + Len(w) - 1) = w
        /\ name[i - 1] # "%"

\* bool() of a JSON value
Truthy(v) ==
    CASE v.type = "null" -> FALSE
      [] v.type = "num" -> v.n # 0
      [] v.type = "str" -> Len(v.s) > 0
      [] v.type = "list" -> Len(v.items) > 0
      [] v.type = "obj" -> Len(v.kv) > 0
      [] OTHER -> FALSE

\* lines 266-302: the connectors gather_context invokes, in order
SelectedConnectors(t, metadata) ==
    (IF TypeHas("budget", t) \/ TypeHas("cost", t)
     THEN <<"cost_breakdown", "top_services", "budget_status">> ELSE <<>>)
    \o (IF /\ TypeHas("cloudwatch_alarm", t)
           /\ Contains(<<"lambda">>, Lower(metadata.alarm_name.s))
           /\ FunctionNameFound(metadata.alarm_name.s)
        THEN <<"logs">> ELSE <<>>)
    \o (IF /\ TypeHas("emr", t)
           /\ Truthy(metadata.cluster_id)
        THEN <<"emr_status">> ELSE <<>>)
    \o <<"recent_changes">>

\* what one connector call does: a result map ("ok"), a result map that holds
\* a datetime ("ok_datetime"), a result map with an error field ("error"), or
\* an exception ("raise": the API client is built outside the try block)
ConnectorOutcomes == {"ok", "ok_datetime", "error", "raise"}

\* get_budget_status copies each budget's TimePeriod, whose Start and End are
\* datetime objects, into its result (cost_tools.py line 259); the other
\* connectors convert every timestamp to text
OutcomesOf(connector) ==
    IF connector = "budget_status" THEN ConnectorOutcomes
    ELSE ConnectorOutcomes \ {"ok_datetime"}

\* the connectors called before the first one that raises, that one included
CallsMade(selected, outcome) ==
    IF \E i \in 1..Len(selected) : outcome[i] = "raise"
    THEN SubSeq(selected, 1,
                CHOOSE i \in 1..Len(selected) :
                    /\ outcome[i] = "raise"
                    /\ \A j \in 1..(i - 1) : outcome[j] # "raise")
    ELSE selected

\* lines 263-308: the bundle stored in the state; one exception replaces it
ContextOf(selected, outcome) ==
    LET made == CallsMade(selected, outcome) IN
    IF Len(made) > 0 /\ outcome[Len(made)] = "raise"
    THEN [error |-> "connector exception"]
    ELSE [k \in {selected[i] : i \in 1..Len(selected)} |->
            LET i == CHOOSE i \in 1..Len(selected) : selected[i] = k
            IN  [error |-> outcome[i] = "error",
                 serializable |-> outcome[i] # "ok_datetime"]]

\* the early return of line 257 left out
SkipsGathering_Never(t) == FALSE

\* line 257
SkipsGathering(t) == t = "passthrough"

\* the node with the exception of a connector also written to the error field
gather_context_RecordsError ==
    /\ pc = "gather_context"
    /\ pc' = NextNode("gather_context")
    /\ IF SkipsGathering(alert_type)
       THEN UNCHANGED <<context, tool_calls, error>>
       ELSE LET selected == SelectedConnectors(alert_type, alert_metadata) IN
            \E outcome \in [1..Len(selected) -> ConnectorOutcomes] :
               LET made == CallsMade(selected, outcome) IN
               /\ \A i \in 1..Len(selected) : outcome[i] \in OutcomesOf(selected[i])
               /\ tool_calls' = tool_calls \o made
               /\ context' = ContextOf(selected, outcome)
               /\ error' = IF "error" \in DOMAIN ContextOf(selected, outcome)
                            THEN "connector exception" ELSE error
               /\ \A i \in 1..Len(selected) :
                    i > Len(made) => outcome[i] = "ok"
    /\ UNCHANGED <<config, raw_event, alert_type, alert_metadata, analysis_result,
                   slack_message, slack_channel, message, classified,
                   should_analyze, exception, environ, llm_calls, http_posts,
                   post_outcome, response>>
    /\ UNCHANGED tool_vars

\* node 2 (lines 246-310)
gather_context ==
    /\ pc = "gather_context"
    /\ pc' = NextNode("gather_context")
    /\ IF SkipsGathering(alert_type)
       THEN UNCHANGED <<context, tool_calls>>
       ELSE LET selected == SelectedConnectors(alert_type, alert_metadata) IN
            \E outcome \in [1..Len(selected) -> ConnectorOutcomes] :
               LET made == CallsMade(selected, outcome) IN
               /\ \A i \in 1..Len(selected) : outcome[i] \in OutcomesOf(selected[i])
               /\ tool_calls' = tool_calls \o made
               /\ context' = ContextOf(selected, outcome)
               \* the outcomes after a raise are never observed
               /\ \A i \in 1..Len(selected) :
                    i > Len(made) => outcome[i] = "ok"
    /\ UNCHANGED <<config, raw_event, alert_type, alert_metadata, analysis_result,
                   slack_message, slack_channel, error, message, classified,
                   should_analyze, exception, environ, llm_calls, http_posts,
                   post_outcome, response>>
    /\ UNCHANGED tool_vars

(***************************************************************************)
(* Analyzer                                                                *)
(***************************************************************************)
\* the lengths of the model's answers
SummaryLengths == {10, 2500, 2501}

\* len('Failed to analyze alert with AI.')
FailureSummaryLength == 32

\* lines 368-371: json.dumps of the context bundle succeeds; a datetime in
\* a connector's result makes it raise TypeError
Serializable(ctx) ==
    \A k \in DOMAIN ctx \ {"error"} : ctx[k].serializable

\* the failure record with the error only
FailureRecord_NoSummary == [error |-> "llm exception"]

\* lines 356-359: what the except branch stores
FailureRecord ==
    [error |-> "llm exception",
     summary |-> [text |-> "Failed to analyze alert with AI.",
                  len |-> FailureSummaryLength]]

\* line 330
SkipsAnalysis(t) == t = "passthrough"

\* node 3 (lines 320-361); the prompt is built before the try block
analyze_with_llm ==
    /\ pc = "analyze_with_llm"
    /\ IF SkipsAnalysis(alert_type)
       THEN /\ pc' = NextNode("analyze_with_llm")
            /\ UNCHANGED <<analysis_result, llm_calls, exception>>
       ELSE IF ~Serializable(context)
       THEN /\ pc' = "raised"
            /\ exception' = "TypeError"
            /\ UNCHANGED <<analysis_result, llm_calls>>
       ELSE /\ pc' = NextNode("analyze_with_llm")
            /\ llm_calls' = llm_calls + 1
            /\ UNCHANGED exception
            /\ \/ \E n \in SummaryLengths :
                    analysis_result' =
                        [summary |-> [text |-> "response.content", len |-> n],
                         timestamp |-> "utcnow", model |-> "LLM_MODEL_ID"]
               \/ analysis_result' = FailureRecord
    /\ UNCHANGED <<config, raw_event, alert_type, alert_metadata, context,
                   slack_message, slack_channel, error, message, classified,
                   should_analyze, environ, tool_calls, http_posts,
                   post_outcome, response>>
    /\ UNCHANGED tool_vars

(***************************************************************************)
(* Formatter                                                               *)
(***************************************************************************)
\* the [:2500] of line 432
SlackLimit == 2500

\* the length of the heading the f-string of line 432 puts before the
\* summary: an asterisk, the four characters of the symbol, ' AI Analysis:',
\* an asterisk and a newline
AnalysisHeadingLength == 20

Min(a, b) == IF a < b THEN a ELSE b

\* the summary put into the section whole
AnalysisText_NoTruncation(n) == AnalysisHeadingLength + n

\* line 432: len(f'*... AI Analysis:*\n{analysis["summary"][:2500]}')
AnalysisText(n) == AnalysisHeadingLength + Min(n, SlackLimit)

\* lines 464-471
_get_alert_style(t, channel) ==
    IF \/ channel = "critical"
       \/ t \in {"emr_cluster_failure", "emr_step_failure"}
       \/ t = "budget_critical"
    THEN "danger"
    ELSE IF t \in {"budget_warning", "cloudwatch_alarm_warning"} THEN "warning"
    ELSE "good"

\* lines 482-500: the lines of the context summary
_format_context_summary(ctx) ==
    LET lines ==
          (IF "cost_breakdown" \in DOMAIN ctx THEN <<"Total Cost (7d)">> ELSE <<>>)
          \o (IF "top_services" \in DOMAIN ctx /\ ~ctx["top_services"].error
              THEN <<"Top Services">> ELSE <<>>)
          \o (IF "emr_status" \in DOMAIN ctx
              THEN <<"EMR Cluster", "Status">> ELSE <<>>)
    IN  IF Len(lines) > 0 THEN lines ELSE <<"No additional context available">>

\* the context section left out when the bundle is an error record
ContextShown_NotForErrorRecord(ctx, t) ==
    /\ ctx # None
    /\ DOMAIN ctx # {}
    /\ "error" \notin DOMAIN ctx
    /\ t # "passthrough"

\* line 437: `context and alert_type != 'passthrough'`
ContextShown(ctx, t) ==
    /\ ctx # None
    /\ DOMAIN ctx # {}
    /\ t # "passthrough"

\* node 4 (lines 385-462)
format_response ==
    /\ pc = "format_response"
    /\ pc' = NextNode("format_response")
    /\ LET style == _get_alert_style(alert_type, slack_channel)
           header == <<[type |-> "header", role |-> "header"]>>
           details == <<[type |-> "section", role |-> "details",
                         fields |-> DOMAIN alert_metadata]>>
           analysis ==
             IF analysis_result # None /\ "summary" \in DOMAIN analysis_result
             THEN <<[type |-> "divider", role |-> "divider"],
                    [type |-> "section", role |-> "analysis",
                     len |-> AnalysisText(analysis_result.summary.len)]>>
             ELSE <<>>
           ctx ==
             IF ContextShown(context, alert_type)
             THEN <<[type |-> "divider", role |-> "divider"],
                    [type |-> "section", role |-> "context",
                     lines |-> _format_context_summary(context)]>>
             ELSE <<>>
           footer == <<[type |-> "context", role |-> "footer"]>>
       IN  slack_message' =
             [blocks |-> header \o details \o analysis \o ctx \o footer,
              text |-> <<style, alert_type>>]
    /\ UNCHANGED <<config, raw_event, alert_type, alert_metadata, context,
                   analysis_result, slack_channel, error, message, classified,
                   should_analyze, exception, environ, tool_calls, llm_calls,
                   http_posts, post_outcome, response>>
    /\ UNCHANGED tool_vars

(***************************************************************************)
(* Dispatcher                                                              *)
(***************************************************************************)
\* one variable for every channel
WebhookVar_AlwaysHeartbeat(channel) == "SLACK_HEARTBEAT_WEBHOOK"

\* 'SLACK_' + channel.upper() + '_WEBHOOK'
WebhookVar(channel) ==
    IF channel = "critical" THEN "SLACK_CRITICAL_WEBHOOK"
    ELSE "SLACK_HEARTBEAT_WEBHOOK"

\* os.getenv gives None for a variable that is not set
Unset == "unset"

\* the status codes the webhook answers with
StatusCodes == {200, 201, 204, 404, 500}

StatusError(code) ==
    CASE code = 201 -> "Slack API error: 201"
      [] code = 204 -> "Slack API error: 204"
      [] code = 404 -> "Slack API error: 404"
      [] code = 500 -> "Slack API error: 500"

\* str(e) of what requests.post raises; an exception may have no message
PostExceptions == {"ConnectTimeout", ""}

\* only an unset variable counts as missing
MissingWebhook_OnlyUnset(url) == url = Unset

\* line 516: `not webhook_url`
MissingWebhook(url) == url = Unset \/ url = ""

\* line 518
MissingError(channel) ==
    IF channel = "critical" THEN "Missing SLACK_CRITICAL_WEBHOOK"
    ELSE "Missing SLACK_HEARTBEAT_WEBHOOK"

\* every 2xx status taken as a success
StatusFailed_Not2xx(code) == code \notin 200..299

\* line 529
StatusFailed(code) == code # 200

\* a failed attempt is repeated once
PostsOf_RetryOnFailure(posts, url, outcome) ==
    IF "raised" \in DOMAIN outcome \/ outcome.status # 200
    THEN posts \o <<url, url>>
    ELSE Append(posts, url)

\* lines 522-527: the one requests.post of the run
PostsOf(posts, url, outcome) == Append(posts, url)

\* node 5 (lines 502-539)
post_to_slack ==
    /\ pc = "post_to_slack"
    /\ pc' = NextNode("post_to_slack")
    /\ LET webhook_env_var == WebhookVar(slack_channel)
           webhook_url == environ[webhook_env_var]
       IN  IF MissingWebhook(webhook_url)
           THEN /\ error' = MissingError(slack_channel)
                /\ UNCHANGED <<http_posts, post_outcome>>
           ELSE \E outcome \in {[status |-> code] : code \in StatusCodes}
                                 \cup {[raised |-> e] : e \in PostExceptions} :
                /\ http_posts' = PostsOf(http_posts, webhook_url, outcome)
                /\ post_outcome' = outcome
                /\ error' = IF "raised" \in DOMAIN outcome THEN outcome.raised
                            ELSE IF StatusFailed(outcome.status)
                            THEN StatusError(outcome.status)
                            ELSE error
    /\ UNCHANGED <<config, raw_event, alert_type, alert_metadata, context,
                   analysis_result, slack_message, slack_channel, message,
                   classified, should_analyze, exception, environ, tool_calls,
                   llm_calls, response>>
    /\ UNCHANGED tool_vars

(***************************************************************************)
(* Handler (index.py)                                                      *)
(***************************************************************************)
\* bool() of the error field: None and '' are false
ErrorSet(e) == e # "None" /\ e # ""

\* a failed analysis or a failed context bundle reported as a failure
WorkflowFailed_UpstreamCounts ==
    \/ ErrorSet(error)
    \/ analysis_result # None /\ "error" \in DOMAIN analysis_result
    \/ context # None /\ "error" \in DOMAIN context

\* line 77: result.get('error')
WorkflowFailed == ErrorSet(error)

\* the failure body with the keys of the success body added
FailureBody_WithAlert ==
    [error |-> error, message |-> "Failed to process alert",
     alert_type |-> alert_type, channel |-> slack_channel]

\* lines 81-84: the keys of the failure body
FailureBody ==
    [error |-> error, message |-> "Failed to process alert"]

\* lines 53-111: the result of the invocation
lambda_handler ==
    /\ pc \in {"END", "raised"}
    /\ pc' = "returned"
    /\ response' =
         IF pc = "raised"
         THEN [statusCode |-> 500,
               body |-> [error |-> exception,
                         message |-> "Internal error processing alert"]]
         ELSE IF WorkflowFailed
         THEN [statusCode |-> 500, body |-> FailureBody]
         ELSE [statusCode |-> 200,
               body |-> [alert_type |-> alert_type, channel |-> slack_channel,
                         message |-> "Alert processed successfully"]]
    /\ UNCHANGED <<config, raw_event, alert_type, alert_metadata, context,
                   analysis_result, slack_message, slack_channel, error,
                   message, classified, should_analyze, exception, environ,
                   tool_calls, llm_calls, http_posts, post_outcome>>
    /\ UNCHANGED tool_vars

(***************************************************************************)
(* The whole invocation                                                    *)
(***************************************************************************)
\* the envelopes the whole pipeline is run on
PipelineEnvelopes ==
    OddAlarmMessages
      \cup { JObj(<<KV(<<"AlarmName">>, Text(name))>> \o Opt("NewStateValue", sv))
               : name \in NamesOf(1), sv \in {Text(<<"ALARM">>)} }
      \cup { JObj(<<KV(<<"detail-type">>, Text(<<"EMR", " ", "Cluster State Change">>))>>
                  \o Opt("detail", d)) : d \in Details }
      \cup {WrapBody(JsonDumps(m)) : m \in OddAlarmMessages \cup NonObjects}
      \cup {WrapBody(b) : b \in InvalidBodies \cup CompactBodies}

PipelineConfigs ==
    { FallbackConfig,
      AIConfig(TRUE, <<>>, <<>>, [t \in AlertTypes |-> TRUE]),
      AIConfig(TRUE, <<>>, <<>>,
               [t \in {"cloudwatch_alarm_error", "custom_event", "budget_critical"}
                   |-> t = "cloudwatch_alarm_error"]),
      AIConfig(TRUE, <<<<"urgent", "-db">>>>, <<<<"urgent">>>>, <<>>),
      AIConfig(FALSE, <<<<"urgent">>>>, <<>>, [t \in AlertTypes |-> TRUE]) }

Environs ==
    { FullEnviron,
      [FullEnviron EXCEPT !["SLACK_CRITICAL_WEBHOOK"] = Unset],
      [FullEnviron EXCEPT !["SLACK_HEARTBEAT_WEBHOOK"] = ""] }

Init ==
    /\ raw_event \in PipelineEnvelopes
    /\ config \in PipelineConfigs
    /\ environ \in Environs
    /\ InitState

Next ==
    \/ classify_alert
    \/ gather_context
    \/ analyze_with_llm
    \/ format_response
    \/ post_to_slack
    \/ lambda_handler

Spec == Init /\ [][Next]_vars

(***************************************************************************)
(* Properties of the analysis gate                                         *)
(***************************************************************************)
\* classify_alert has returned
Classified == pc # "classify_alert" /\ pc # "raised"

WhitelistHit ==
    \E i \in 1..Len(config.whitelist) :
        Contains(config.whitelist[i], JsonDumps(message))

BlacklistHit ==
    \E i \in 1..Len(config.blacklist) :
        Contains(config.blacklist[i], JsonDumps(message))

RuleSaysAnalyze ==
    /\ classified.alert_type \in DOMAIN config.rules
    /\ config.rules[classified.alert_type]

\* C1: with the switch on, a whitelist pattern that is a substring of the
\* serialized message makes the gate return true, whatever the blacklist and
\* the rule table hold
C1_WhitelistForcesAnalysis ==
    (Classified /\ config.enabled /\ WhitelistHit)
        => (should_analyze /\ alert_type = classified.alert_type)

\* C1 happens: whitelist and blacklist both match, no rule says analyze
C1_Witness ==
    /\ Classified /\ config.enabled /\ WhitelistHit /\ BlacklistHit
    /\ ~RuleSaysAnalyze
    /\ config.whitelist = <<<<"urgent", "-db">>>>
    /\ config.blacklist = <<<<"urgent">>>>
    /\ should_analyze

\* C2: a blacklist match without a whitelist match makes the gate return
\* false, even when the rule table says analyze
C2_BlacklistForcesPassthrough ==
    (Classified /\ ~WhitelistHit /\ BlacklistHit)
        => (~should_analyze /\ alert_type = "passthrough")

\* C2 happens: the switch is on and the rule of the type is true
C2_Witness ==
    /\ Classified /\ config.enabled /\ ~WhitelistHit /\ BlacklistHit
    /\ RuleSaysAnalyze
    /\ alert_type = "passthrough"

\* C3: with the switch off the gate returns false for every type and
\* message and the invocation takes the passthrough path
C3_SwitchOffIsPassthrough ==
    (Classified /\ ~config.enabled)
        => (~should_analyze /\ alert_type = "passthrough")

\* C3 happens: switch off while a whitelist pattern matches and the rule
\* of the type is true
C3_Witness ==
    /\ Classified /\ ~config.enabled /\ WhitelistHit /\ RuleSaysAnalyze
    /\ alert_type = "passthrough"

(***************************************************************************)
(* Properties of the classifier                                            *)
(***************************************************************************)
\* the classified message is a dict whose AlarmName is a string
MsgIsAlarm ==
    /\ IsDict(message)
    /\ HasKey(message, <<"AlarmName">>)
    /\ IsStr(Lookup(message, <<"AlarmName">>))

AlarmNameOf == Lookup(message, <<"AlarmName">>).s

NameHas(word) == Contains(word, AlarmNameOf)

Triggered ==
    /\ HasKey(message, <<"NewStateValue">>)
    /\ Lookup(message, <<"NewStateValue">>) = Text(<<"ALARM">>)

\* the integers of a name that are immediately followed by "%": <<i, j>>
\* is a maximal run of digits at positions i..j with "%" at j + 1
PercentIntegers(name) ==
    { r \in (1..Len(name)) \X (1..Len(name)) :
        /\ r[1] <= r[2]
        /\ \A k \in r[1]..r[2] : name[k] \in Digits
        /\ (r[1] = 1 \/ name[r[1] - 1] \notin Digits)
        /\ r[2] < Len(name)
        /\ name[r[2] + 1] = "%" }

\* the first of them, 0 when there is none
FirstPercentInteger(name) ==
    IF PercentIntegers(name) = {} THEN 0
    ELSE LET r == CHOOSE r \in PercentIntegers(name) :
                      \A q \in PercentIntegers(name) : r[1] <= q[1]
         IN  IntOf(SubSeq(name, r[1], r[2]))

MonthlyBudgetAlarm ==
    MsgIsAlarm /\ NameHas(<<"Budget">>) /\ NameHas(<<"Monthly">>) /\ Triggered

\* the name holds ERROR or CRITICAL in some letter case
ErrorKeywordInName ==
    \E i \in 1..Len(AlarmNameOf) :
        AlarmNameOf[i] \in {"error", "Error", "ERROR",
                            "critical", "Critical", "CRITICAL"}

\* the metadata of the generic alarm rule
AlarmMeta ==
    [alarm_name |-> Lookup(message, <<"AlarmName">>),
     state |-> Lookup(message, <<"NewStateValue">>),
     reason |-> IF HasKey(message, <<"NewStateReason">>)
                THEN Lookup(message, <<"NewStateReason">>) ELSE Text(<<>>)]

GenericAlarmResult ==
    IF ErrorKeywordInName
    THEN Return("cloudwatch_alarm_error", AlarmMeta, "critical")
    ELSE Return("cloudwatch_alarm_warning", AlarmMeta, "heartbeat")

\* classify_alert stored the triple in the pipeline state
TripleStored ==
    /\ Classified
    /\ alert_metadata = classified.metadata
    /\ slack_channel = classified.channel

\* C4: a triggered monthly budget alarm whose first "<integer>%" is at least
\* 100 is budget_critical on critical, at least 80 and below 100 is
\* budget_warning on heartbeat, metadata {threshold}, whatever else the name
\* holds
C4_MonthlyBudgetThreshold ==
    MonthlyBudgetAlarm =>
        LET t == FirstPercentInteger(AlarmNameOf) IN
        /\ t >= 100 =>
              /\ classified = Return("budget_critical",
                                     [threshold |-> JNum(t)], "critical")
              /\ TripleStored
        /\ (80 <= t /\ t < 100) =>
              /\ classified = Return("budget_warning",
                                     [threshold |-> JNum(t)], "heartbeat")
              /\ TripleStored

\* C4 happens: a monthly budget alarm at 100% or more whose name also holds
\* an error keyword
C4_Witness ==
    /\ MonthlyBudgetAlarm
    /\ ErrorKeywordInName
    /\ FirstPercentInteger(AlarmNameOf) >= 100
    /\ Cardinality(PercentIntegers(AlarmNameOf)) = 1
    /\ classified.alert_type = "budget_critical"

\* C5 as stated: a triggered monthly budget alarm below 80 is custom_event
\* on heartbeat with empty metadata
C5_Below80IsCustomEvent ==
    (MonthlyBudgetAlarm /\ FirstPercentInteger(AlarmNameOf) < 80)
        => classified = Return("custom_event", EmptyDict, "heartbeat")

\* C5 amended: a triggered monthly budget alarm below 80 is classified by
\* the later alarm rules: daily_cost_report when the name holds
\* DailyCostReport, else the generic alarm rule; it is never custom_event
C5_Below80FallsToAlarmRules ==
    (MonthlyBudgetAlarm /\ FirstPercentInteger(AlarmNameOf) < 80)
        => /\ TripleStored
           /\ classified.alert_type # "custom_event"
           /\ classified =
                 IF NameHas(<<"Daily", "CostReport">>)
                 THEN Return("daily_cost_report", EmptyDict, "heartbeat")
                 ELSE GenericAlarmResult

\* C5 happens: a monthly budget alarm at 79% becomes a generic warning
C5_Witness ==
    /\ MonthlyBudgetAlarm
    /\ FirstPercentInteger(AlarmNameOf) = 79
    /\ classified.alert_type = "cloudwatch_alarm_warning"
    /\ slack_channel = "heartbeat"

\* rule 1 classifies the message
Rule1Applies ==
    /\ MonthlyBudgetAlarm
    /\ FirstPercentInteger(AlarmNameOf) >= 80

\* C6 as stated: a name with Budget and Daily that rule 1 does not classify
\* is daily_budget_exceeded, also when the name holds Monthly
C6_DailyBudgetAlways ==
    (MsgIsAlarm /\ NameHas(<<"Budget">>) /\ NameHas(<<"Daily">>)
       /\ ~Rule1Applies)
        => classified = Return("daily_budget_exceeded", EmptyDict, "heartbeat")

\* C6 amended: a name with Budget and Daily and without Monthly is
\* daily_budget_exceeded on heartbeat with empty metadata for any
\* NewStateValue; a name that holds Monthly is never daily_budget_exceeded
C6_DailyBudgetWithoutMonthly ==
    (MsgIsAlarm /\ NameHas(<<"Budget">>) /\ NameHas(<<"Daily">>))
        => /\ TripleStored
           /\ ~NameHas(<<"Monthly">>) =>
                classified = Return("daily_budget_exceeded", EmptyDict, "heartbeat")
           /\ NameHas(<<"Monthly">>) =>
                classified.alert_type # "daily_budget_exceeded"

\* C6 happens: a triggered daily budget alarm at 100% with an error keyword
C6_Witness ==
    /\ MsgIsAlarm /\ NameHas(<<"Budget">>) /\ NameHas(<<"Daily">>)
    /\ ~NameHas(<<"Monthly">>)
    /\ Triggered
    /\ FirstPercentInteger(AlarmNameOf) >= 100
    /\ classified.alert_type = "daily_budget_exceeded"

BudgetAndCostTypes ==
    {"budget_critical", "budget_warning", "daily_budget_exceeded",
     "daily_cost_report"}

\* C7: a message with AlarmName and NewStateValue that the budget and
\* cost-report rules do not classify is cloudwatch_alarm_error on critical
\* when the name holds ERROR or CRITICAL in any letter case, else
\* cloudwatch_alarm_warning on heartbeat; metadata is {alarm_name, state,
\* reason} with reason "" when NewStateReason is absent
C7_GenericAlarmSeverity ==
    (MsgIsAlarm /\ HasKey(message, <<"NewStateValue">>))
        => /\ TripleStored
           /\ classified.alert_type \notin BudgetAndCostTypes
                => classified = GenericAlarmResult

\* C7 happens: a lower-case keyword, no NewStateReason
C7_Witness ==
    /\ MsgIsAlarm /\ HasKey(message, <<"NewStateValue">>)
    /\ ~HasKey(message, <<"NewStateReason">>)
    /\ \E i \in 1..Len(AlarmNameOf) : AlarmNameOf[i] = "error"
    /\ classified.alert_type = "cloudwatch_alarm_error"
    /\ alert_metadata.reason = Text(<<>>)
    /\ slack_channel = "critical"

AlarmRuleTypes ==
    BudgetAndCostTypes \cup {"cloudwatch_alarm_error", "cloudwatch_alarm_warning"}

\* the message is event-bus shaped and its detail-type holds EMR
MsgIsEMR ==
    /\ IsDict(message)
    /\ HasKey(message, <<"detail-type">>)
    /\ IsStr(Lookup(message, <<"detail-type">>))
    /\ Contains(<<"EMR">>, Lookup(message, <<"detail-type">>).s)

\* detail of the message, {} when absent
DetailOf ==
    IF HasKey(message, <<"detail">>) THEN Lookup(message, <<"detail">>)
    ELSE JObj(<<>>)

\* detail.state and detail.clusterId, "" when absent
DetailField(key) ==
    IF HasKey(DetailOf, key) THEN Lookup(DetailOf, key) ELSE Text(<<>>)

EMRMeta ==
    [cluster_id |-> DetailField(<<"clusterId">>), state |-> DetailField(<<"state">>)]

\* C8: an EMR message no alarm rule matches is emr_cluster_failure when
\* detail.state holds TERMINATED_WITH_ERRORS, emr_step_failure when it holds
\* FAILED and not TERMINATED_WITH_ERRORS, both critical with metadata
\* {cluster_id, state}; any other or missing state is custom_event on
\* heartbeat with empty metadata
C8_EMRClassification ==
    (MsgIsEMR /\ Classified /\ classified.alert_type \notin AlarmRuleTypes)
        => /\ TripleStored
           /\ classified =
                 IF Contains(<<"TERMINATED_WITH_ERRORS">>, DetailField(<<"state">>).s)
                 THEN Return("emr_cluster_failure", EMRMeta, "critical")
                 ELSE IF Contains(<<"FAILED">>, DetailField(<<"state">>).s)
                 THEN Return("emr_step_failure", EMRMeta, "critical")
                 ELSE Return("custom_event", EmptyDict, "heartbeat")

\* C8 happens: the state holds FAILED and TERMINATED_WITH_ERRORS, the
\* message has an AlarmName and no clusterId
C8_Witness ==
    /\ MsgIsEMR /\ Classified
    /\ HasKey(message, <<"AlarmName">>)
    /\ classified.alert_type = "emr_cluster_failure"
    /\ Contains(<<"FAILED">>, DetailField(<<"state">>).s)
    /\ alert_metadata.cluster_id = Text(<<>>)

\* C9: classification raises nothing for any envelope and returns a
\* non-empty alert type with channel critical or heartbeat
C9_ClassificationNeverRaises ==
    /\ pc # "raised"
    /\ Classified =>
          /\ classified.alert_type \in AlertTypes
          /\ slack_channel \in {"critical", "heartbeat"}

(***************************************************************************)
(* Properties of the transport parse                                       *)
(***************************************************************************)
\* the envelope is a notification wrapper whose Message is not valid JSON
InvalidJsonEnvelope == \E b \in InvalidBodies : raw_event = WrapBody(b)

\* the Message string of a wrapper envelope
BodyOf(event) ==
    Lookup(Lookup(Lookup(event, <<"Records">>).items[1], <<"Sns">>), <<"Message">>)

\* what the gate has to return for the classified message
GateDecision ==
    /\ config.enabled
    /\ WhitelistHit \/ (~BlacklistHit /\ RuleSaysAnalyze)

\* C10: a wrapper whose Message is not valid JSON is classified as
\* {RawMessage: body}: custom_event on heartbeat with empty metadata, the
\* gate decided on the serialized wrapper; nothing is raised and the run
\* ends with a formatted message handed to the dispatcher
C10_MalformedMessageIsRaw ==
    InvalidJsonEnvelope =>
        /\ pc # "raised"
        /\ pc # "classify_alert" =>
              /\ message = JObj(<<KV(<<"RawMessage">>, BodyOf(raw_event))>>)
              /\ classified = Return("custom_event", EmptyDict, "heartbeat")
              /\ TripleStored
              /\ should_analyze = GateDecision
              /\ alert_type = IF GateDecision THEN "custom_event" ELSE "passthrough"
        /\ pc \in {"END", "returned"} =>
              /\ slack_message # None
              /\ \/ http_posts = <<environ["SLACK_HEARTBEAT_WEBHOOK"]>>
                 \/ error = "Missing SLACK_HEARTBEAT_WEBHOOK"
        /\ pc = "returned" =>
              response.body.message # "Internal error processing alert"

\* C10 happens: a raw text matched by the whitelist was analysed, formatted
\* and posted
C10_Witness ==
    /\ InvalidJsonEnvelope
    /\ pc = "returned"
    /\ HasKey(message, <<"RawMessage">>)
    /\ WhitelistHit
    /\ alert_type = "custom_event"
    /\ llm_calls = 1
    /\ Len(http_posts) = 1
    /\ response.statusCode = 200

(***************************************************************************)
(* Properties of the passthrough branch and of the formatter               *)
(***************************************************************************)
\* classify_alert returned and the gate said no
GateFalse == classified # None /\ ~should_analyze

\* the dispatcher has run
Dispatched == pc \in {"END", "returned"} /\ exception = "None"

\* the roles of the blocks of the formatted message, in order
BlockRoles ==
    [i \in 1..Len(slack_message.blocks) |-> slack_message.blocks[i].role]

\* C11: when the gate returns false no connector and no model call is made,
\* context and analysis_result stay null to the end, the formatted message is
\* exactly header, details, footer, nothing is raised and the message is
\* handed to the dispatcher (posted, or reported as missing its endpoint)
C11_PassthroughSkipsAnalysis ==
    GateFalse =>
        /\ alert_type = "passthrough"
        /\ tool_calls = <<>>
        /\ llm_calls = 0
        /\ context = None
        /\ analysis_result = None
        /\ pc # "raised" /\ exception = "None"
        /\ pc \in {"post_to_slack", "END", "returned"} =>
              BlockRoles = <<"header", "details", "footer">>
        /\ pc \in {"END", "returned"} =>
              \/ http_posts = <<environ[WebhookVar(slack_channel)]>>
              \/ /\ http_posts = <<>>
                 /\ environ[WebhookVar(slack_channel)] \in {Unset, ""}

\* C11 happens: a blacklisted alarm went through all the nodes as a
\* passthrough and was posted
C11_Witness ==
    /\ GateFalse
    /\ config.enabled
    /\ pc = "returned"
    /\ BlockRoles = <<"header", "details", "footer">>
    /\ Len(http_posts) = 1
    /\ response.statusCode = 200

\* the analysis sections of the formatted message
AnalysisSections ==
    IF slack_message = None THEN {}
    ELSE { slack_message.blocks[i] : i \in
             { j \in 1..Len(slack_message.blocks) :
                 slack_message.blocks[j].role = "analysis" } }

\* C12 as stated: the text of every analysis section is at most 2500
\* characters long
C12_AnalysisSectionAtMost2500 ==
    \A b \in AnalysisSections : b.len <= 2500

\* C12 amended: the summary is cut to its first 2500 characters and put after
\* the 20-character heading, so the text of an analysis section is the heading
\* plus min(len(summary), 2500) characters: at most 2520, and more than 2500
\* for every summary longer than 2480
C12_SummaryCutTo2500 ==
    \A b \in AnalysisSections :
        /\ b.len <= 2500 + 20
        /\ b.len - 20 <= analysis_result.summary.len
        /\ analysis_result.summary.len <= 2500 =>
              b.len = 20 + analysis_result.summary.len
        /\ analysis_result.summary.len > 2500 => b.len = 2520

\* C12 happens: a summary of 2501 characters was formatted
C12_Witness ==
    /\ pc = "returned"
    /\ analysis_result # None
    /\ analysis_result.summary.len = 2501
    /\ \E b \in AnalysisSections : b.len = 2520

(***************************************************************************)
(* Properties of the dispatcher and of the invocation result               *)
(***************************************************************************)
\* no endpoint is configured for the final channel
EndpointMissing ==
    \/ /\ slack_channel = "critical"
       /\ environ["SLACK_CRITICAL_WEBHOOK"] \in {Unset, ""}
    \/ /\ slack_channel = "heartbeat"
       /\ environ["SLACK_HEARTBEAT_WEBHOOK"] \in {Unset, ""}

\* C13: with no endpoint for the final channel (variable unset or empty) the
\* dispatcher raises nothing, posts nothing, records 'Missing
\* SLACK_<CHANNEL>_WEBHOOK' for that channel and the result is a 500
C13_MissingEndpointIsReportedFailure ==
    (Dispatched /\ EndpointMissing) =>
        /\ http_posts = <<>>
        /\ post_outcome = None
        /\ slack_channel = "critical" => error = "Missing SLACK_CRITICAL_WEBHOOK"
        /\ slack_channel = "heartbeat" => error = "Missing SLACK_HEARTBEAT_WEBHOOK"
        /\ pc = "returned" =>
              /\ response.statusCode = 500
              /\ response.body.error = error
              /\ response.body.message = "Failed to process alert"

\* C13 happens: the heartbeat variable is the empty string and a heartbeat
\* alert reached the dispatcher
C13_Witness ==
    /\ pc = "returned"
    /\ exception = "None"
    /\ slack_channel = "heartbeat"
    /\ environ["SLACK_HEARTBEAT_WEBHOOK"] = ""
    /\ response.statusCode = 500

\* the webhook answered with a status
Answered == Dispatched /\ "status" \in DOMAIN post_outcome

\* C14 as stated: every 2xx answer is a success (no error, result 200) and
\* every other answer a failure
C14_Every2xxIsSuccess ==
    Answered =>
        /\ (post_outcome.status \in 200..299) <=> (error = "None")
        /\ pc = "returned" =>
              ((post_outcome.status \in 200..299) <=> (response.statusCode = 200))

\* C14 amended: only the answer 200 is a success; every other status, the
\* other 2xx codes included, records 'Slack API error: <status>' and makes
\* the result a 500
C14_Only200IsSuccess ==
    Answered =>
        /\ (post_outcome.status = 200) <=> (error = "None")
        /\ post_outcome.status = 201 => error = "Slack API error: 201"
        /\ post_outcome.status = 204 => error = "Slack API error: 204"
        /\ post_outcome.status = 404 => error = "Slack API error: 404"
        /\ post_outcome.status = 500 => error = "Slack API error: 500"
        /\ pc = "returned" =>
              /\ (post_outcome.status = 200) <=> (response.statusCode = 200)
              /\ post_outcome.status # 200 =>
                    /\ response.statusCode = 500
                    /\ response.body.error = error

\* C14 happens: the webhook answered 204 and the invocation failed
C14_Witness ==
    /\ pc = "returned"
    /\ Answered
    /\ post_outcome.status = 204
    /\ response.statusCode = 500

\* C15: at most one POST is issued in a run; a run that reaches the
\* dispatcher with a configured endpoint issues exactly one, whatever the
\* outcome of it (a status, a timeout, an exception), and none is issued
\* before the dispatcher or without an endpoint
C15_ExactlyOnePost ==
    /\ Len(http_posts) <= 1
    /\ ~Dispatched => http_posts = <<>>
    /\ (Dispatched /\ ~EndpointMissing) =>
          http_posts = <<environ[WebhookVar(slack_channel)]>>
    /\ (Dispatched /\ EndpointMissing) => http_posts = <<>>

\* C15 happens: the one POST of a run timed out and the run ended
C15_Witness ==
    /\ pc = "returned"
    /\ "raised" \in DOMAIN post_outcome
    /\ post_outcome.raised = "ConnectTimeout"
    /\ Len(http_posts) = 1
    /\ response.statusCode = 500

\* the delivery step failed: no endpoint, the POST raised, or the answer is
\* outside 2xx
DeliveryFailed ==
    /\ Dispatched
    /\ \/ EndpointMissing
       \/ "raised" \in DOMAIN post_outcome
       \/ "status" \in DOMAIN post_outcome /\ post_outcome.status \notin 200..299

\* C16: a failed delivery leaves a recorded error in the final state and the
\* handler returns 500, never 200, also when the exception has no message
C16_DeliveryFailureIsFailure ==
    DeliveryFailed =>
        /\ error # "None" /\ error # ""
        /\ pc = "returned" => response.statusCode = 500

\* something failed upstream of the dispatcher
UpstreamFailed ==
    \/ context # None /\ "error" \in DOMAIN context
    \/ context # None /\ "error" \notin DOMAIN context
         /\ \E k \in DOMAIN context : context[k].error
    \/ analysis_result # None /\ "error" \in DOMAIN analysis_result

\* C17: connector errors, a bundle replaced by an error record and a failed
\* model call never set the error field (it stays null until the dispatcher
\* runs), and when the delivery succeeds the result is a 200
C17_UpstreamFailuresDoNotFail ==
    /\ pc \in {"gather_context", "analyze_with_llm", "format_response",
               "post_to_slack"} => error = "None"
    /\ (Answered /\ post_outcome.status = 200) =>
          /\ error = "None"
          /\ pc = "returned" =>
                /\ response.statusCode = 200
                /\ response.body.message = "Alert processed successfully"

\* C17 happens: the bundle was replaced by an error record, the model call
\* failed, the delivery succeeded and the result is a 200
C17_Witness ==
    /\ pc = "returned"
    /\ context # None /\ "error" \in DOMAIN context
    /\ analysis_result # None /\ "error" \in DOMAIN analysis_result
    /\ Answered /\ post_outcome.status = 200
    /\ response.statusCode = 200

(***************************************************************************)
(* Properties of the run as a whole                                        *)
(***************************************************************************)
\* C18: every invocation reaches the dispatch stage with a formatted
\* message, whatever the envelope and whatever the connectors and the model
\* do: no exception leaves a node upstream of the dispatcher, and no run
\* returns without having handed a formatted message to the dispatcher (the
\* nodes run in a fixed line, so a run that is not aborted gets there)
C18_AlwaysReachesDispatch ==
    /\ pc # "raised"
    /\ pc \in {"post_to_slack", "END", "returned"} =>
          /\ slack_message # None
          /\ exception = "None"

\* the keys of the body of the result
BodyKeys == DOMAIN response.body

\* C19 as stated: the body of every result, the failure results included,
\* reports alert_type and channel together with a success note or an error
C19_BodyAlwaysReportsAlert ==
    pc = "returned" =>
        /\ response.statusCode \in {200, 500}
        /\ {"alert_type", "channel"} \subseteq BodyKeys
        /\ \/ "error" \in BodyKeys
           \/ response.body.message = "Alert processed successfully"

\* C19 amended: the result is a status code and a body; the body of the
\* success result (200) holds alert_type, channel and the success note, the
\* body of a failure result (500) holds only the error string and a failure
\* note and reports neither alert_type nor channel
C19_BodyByStatus ==
    pc = "returned" =>
        /\ response.statusCode \in {200, 500}
        /\ response.statusCode = 200 =>
              /\ BodyKeys = {"alert_type", "channel", "message"}
              /\ response.body.alert_type = alert_type
              /\ response.body.channel = slack_channel
              /\ response.body.message = "Alert processed successfully"
        /\ response.statusCode = 500 =>
              /\ BodyKeys = {"error", "message"}
              /\ response.body.message \in {"Failed to process alert",
                                            "Internal error processing alert"}
              /\ response.body.error = IF exception # "None" THEN exception
                                       ELSE error

\* C19 happens: a classified alert could not be delivered and the failure
\* result was returned
C19_Witness ==
    /\ pc = "returned"
    /\ alert_type \in AlertTypes
    /\ slack_channel = "critical"
    /\ response.statusCode = 500
    /\ response.body.message = "Failed to process alert"

\* C20: after gather_context for an analysed alert every applicable
\* connector was invoked and has its own slot in the bundle, the failing
\* ones with their error recorded there
C20_ConnectorFailureStaysInItsSlot ==
    context # None =>
        /\ tool_calls = SelectedConnectors(alert_type, alert_metadata)
        /\ \A i \in 1..Len(tool_calls) : tool_calls[i] \in DOMAIN context

(***************************************************************************)
(* Properties of the connectors                                            *)
(***************************************************************************)
\* a connector call has come back, one way or the other
ToolReturned == pc = "tool_returned"

\* the data source of the call failed: no client, or a failing API call
SourceFailed == ~tool_input.client \/ ~tool_input.api

\* C23: every connector call returns a result map, and that map carries an
\* error field whenever the data source failed, the construction of the API
\* client included; no exception leaves a connector
C23_ConnectorsNeverRaise ==
    ToolReturned =>
        /\ ~tool_output.raised
        /\ SourceFailed => tool_output.result.error

\* the interval the claim gives for a parameter of a connector
ClaimedBound(t, p) ==
    CASE p = "days" -> 90
      [] p = "top" -> 20
      [] p = "hours" /\ t = "get_cloudwatch_logs" -> 72
      [] p = "hours" -> 168
      [] p = "limit" /\ t = "get_resource_tags" -> 50
      [] p = "limit" -> 100

\* C27: every numeric parameter a connector queries with lies in its
\* interval (days 1..90, top 1..20, hours 1..168, log-query hours 1..72, log
\* limits 1..100), an argument inside the interval is used unchanged, one
\* below it becomes 1 and one above it the upper bound, and clamping the
\* clamped value again changes nothing
C27_ParametersClamped ==
    (ToolReturned /\ ~tool_output.raised) =>
        \A p \in DOMAIN tool_input.args :
            LET x == tool_input.args[p]
                q == tool_output.query[p]
                hi == ClaimedBound(tool_input.tool, p)
            IN  /\ q \in 1..hi
                /\ x \in 1..hi => q = x
                /\ x < 1 => q = 1
                /\ x > hi => q = hi
                /\ Clamp(q, hi) = q

\* C27 happens: a log query asked for 73 hours and 0 entries and queried
\* with 72 hours and 1 entry
C27_Witness ==
    /\ ToolReturned
    /\ tool_input.tool = "get_cloudwatch_logs"
    /\ tool_input.args = [hours |-> 73, limit |-> 0]
    /\ ~tool_output.raised
    /\ tool_output.query = [hours |-> 72, limit |-> 1]

(***************************************************************************)
(* Properties of the context bundle and of the analysis result             *)
(***************************************************************************)
\* gather_context has stored a bundle
Gathered == context # None

\* the source keys the claim gives for the alert of the state
ExpectedKeys ==
    (IF alert_type \in {"budget_critical", "budget_warning",
                        "daily_budget_exceeded", "daily_cost_report"}
     THEN {"cost_breakdown", "top_services", "budget_status"} ELSE {})
    \cup (IF /\ alert_type \in {"cloudwatch_alarm_error", "cloudwatch_alarm_warning"}
             /\ Contains(<<"lambda">>, Lower(alert_metadata.alarm_name.s))
             /\ FunctionNameFound(alert_metadata.alarm_name.s)
          THEN {"logs"} ELSE {})
    \cup (IF /\ alert_type \in {"emr_cluster_failure", "emr_step_failure"}
             /\ Truthy(alert_metadata.cluster_id)
          THEN {"emr_status"} ELSE {})
    \cup {"recent_changes"}

\* C21: after context gathering on the analysed path the keys of the bundle
\* are exactly the connectors selected for the alert, and no other key
C21_BundleKeysAreTheSelectedConnectors ==
    Gathered => DOMAIN context = ExpectedKeys

\* the run got as far as the formatter
FormatStarted ==
    /\ pc \in {"format_response", "post_to_slack", "END", "returned"}
    /\ exception = "None"

\* C22: when the gate allowed analysis, analysis_result is non-null when
\* formatting starts and has a summary: the model's text, or the fixed
\* failure sentence next to an error field; the failed model call raises
\* nothing and the formatter emits the analysis section in both cases
C22_AnalysisAlwaysHasSummary ==
    (classified # None /\ should_analyze) =>
        /\ FormatStarted =>
              /\ analysis_result # None
              /\ "summary" \in DOMAIN analysis_result
              /\ llm_calls = 1
              /\ "error" \in DOMAIN analysis_result =>
                    analysis_result.summary.text = "Failed to analyze alert with AI."
              /\ "error" \notin DOMAIN analysis_result =>
                    analysis_result.summary.text = "response.content"
        /\ (FormatStarted /\ pc # "format_response") =>
              Cardinality(AnalysisSections) = 1
        /\ (analysis_result # None /\ "error" \in DOMAIN analysis_result) =>
              pc # "raised" /\ exception = "None"

\* C22 happens: the model call failed and the failure sentence was formatted
\* and posted
C22_Witness ==
    /\ should_analyze
    /\ pc = "returned"
    /\ analysis_result # None
    /\ "error" \in DOMAIN analysis_result
    /\ \E b \in AnalysisSections : b.len = 20 + 32
    /\ Len(http_posts) = 1

(***************************************************************************)
(* Properties of routing, ordering and frames                              *)
(***************************************************************************)
\* C24: every POST of a run goes to the endpoint configured for the final
\* channel, never to the other channel's, and nothing is posted when the
\* channel's own endpoint is missing
C24_PostedToOwnEndpointOnly ==
    /\ \A i \in 1..Len(http_posts) :
          /\ slack_channel \in {"critical", "heartbeat"}
          /\ slack_channel = "critical" =>
                http_posts[i] = environ["SLACK_CRITICAL_WEBHOOK"]
          /\ slack_channel = "heartbeat" =>
                http_posts[i] = environ["SLACK_HEARTBEAT_WEBHOOK"]
          /\ http_posts[i] \notin {Unset, ""}
    /\ (Dispatched /\ EndpointMissing) => http_posts = <<>>

\* C24 happens: a critical alert whose endpoint is missing was not posted to
\* the heartbeat endpoint, which is configured
C24_Witness ==
    /\ pc = "returned"
    /\ exception = "None"
    /\ slack_channel = "critical"
    /\ environ["SLACK_CRITICAL_WEBHOOK"] = Unset
    /\ environ["SLACK_HEARTBEAT_WEBHOOK"] = "https://hooks/heartbeat"
    /\ http_posts = <<>>

\* C25: the stages run in the order classify, gather, analyze, format,
\* dispatch, the run ends after the dispatch, and only an exception takes a
\* run out of that line; on a passthrough gather and analyze do nothing, on
\* the analysed path they always do their work, whatever the connectors did
C25_StagesInFixedOrder ==
    [][ /\ pc = "classify_alert" => pc' \in {"gather_context", "raised"}
        /\ pc = "gather_context" => pc' = "analyze_with_llm"
        /\ pc = "analyze_with_llm" => pc' \in {"format_response", "raised"}
        /\ pc = "format_response" => pc' = "post_to_slack"
        /\ pc = "post_to_slack" => pc' = "END"
        /\ pc \in {"END", "raised"} => pc' = "returned"
        /\ pc # "returned"
        /\ (pc \in {"gather_context", "analyze_with_llm"}
              /\ alert_type = "passthrough") =>
              UNCHANGED <<context, analysis_result, tool_calls, llm_calls>>
        /\ (pc = "gather_context" /\ alert_type # "passthrough") =>
              tool_calls = <<>> /\ tool_calls' # <<>>
        /\ (pc = "analyze_with_llm" /\ alert_type # "passthrough"
              /\ pc' # "raised") =>
              llm_calls = 0 /\ llm_calls' = 1
      ]_vars

\* C25 happens: a connector returned an error, the model call failed and the
\* webhook answered 500, and the run still went through every stage
C25_Witness ==
    /\ pc = "returned"
    /\ context # None /\ "error" \notin DOMAIN context
    /\ context["recent_changes"].error
    /\ analysis_result # None /\ "error" \in DOMAIN analysis_result
    /\ slack_message # None
    /\ Answered /\ post_outcome.status = 500

\* C26: with the switch on and no whitelist or blacklist pattern matching
\* the gate returns the rule of the classified type, false when the table
\* has no rule for it; with the fallback configuration every alert is a
\* passthrough and neither a connector nor the model is invoked
C26_RuleTableDecides ==
    /\ (classified # None /\ config.enabled /\ ~WhitelistHit /\ ~BlacklistHit) =>
          /\ classified.alert_type \notin DOMAIN config.rules => ~should_analyze
          /\ classified.alert_type \in DOMAIN config.rules =>
                should_analyze = config.rules[classified.alert_type]
    /\ config = FallbackConfig =>
          /\ llm_calls = 0
          /\ tool_calls = <<>>
          /\ classified # None => ~should_analyze /\ alert_type = "passthrough"

\* C26 happens: a table without a rule for the classified type made a
\* heartbeat alarm a passthrough
C26_Witness ==
    /\ pc = "returned"
    /\ classified # None
    /\ config.enabled /\ ~WhitelistHit /\ ~BlacklistHit
    /\ config.rules # <<>>
    /\ classified.alert_type = "cloudwatch_alarm_warning"
    /\ classified.alert_type \notin DOMAIN config.rules
    /\ alert_type = "passthrough"
    /\ llm_calls = 0

\* C28: the final channel and metadata are what classification produced for
\* the envelope, under every gate configuration: the channel any other
\* configuration would store for the same envelope is the same one, and the
\* configuration shows only in alert_type (the classified type or
\* 'passthrough'), context and analysis_result
C28_GateDoesNotRoute ==
    classified # None =>
        LET triple == _classify_message(ExtractMessage(raw_event).message) IN
        /\ slack_channel = triple.channel
        /\ alert_metadata = triple.metadata
        /\ alert_type = IF should_analyze THEN triple.alert_type ELSE "passthrough"
        /\ \A other \in PipelineConfigs :
              RoutedChannel(triple,
                            _should_analyze(other, triple.alert_type, message))
                = slack_channel

\* C28 happens: a critical alarm made a passthrough by the switch kept its
\* channel and metadata to the end
C28_Witness ==
    /\ pc = "returned"
    /\ ~config.enabled
    /\ alert_type = "passthrough"
    /\ slack_channel = "critical"
    /\ classified.alert_type = "cloudwatch_alarm_error"
    /\ alert_metadata = classified.metadata

\* C29: the formatted message has 3 blocks (header, details, footer) on the
\* passthrough path and 7 blocks (header, details, divider, analysis,
\* divider, context, footer) on the analysed path, for every outcome of the
\* connectors and the model; the fallback text is never empty
C29_TwoBlockLayouts ==
    slack_message # None =>
        /\ alert_type = "passthrough" =>
              BlockRoles = <<"header", "details", "footer">>
        /\ alert_type # "passthrough" =>
              BlockRoles = <<"header", "details", "divider", "analysis",
                             "divider", "context", "footer">>
        /\ Len(slack_message.text) > 0

\* C29 happens: the bundle was replaced by an error record and the message
\* still has the seven blocks, the context section saying that there is none
C29_Witness ==
    /\ pc = "post_to_slack"
    /\ "error" \in DOMAIN context
    /\ Len(slack_message.blocks) = 7
    /\ slack_message.blocks[6].lines = <<"No additional context available">>

\* C30: after classification raw_event, alert_type, alert_metadata and
\* slack_channel never change; gather_context writes only context,
\* analyze_with_llm only analysis_result, format_response only slack_message
\* and post_to_slack only error, so error is null before the dispatch stage
C30_StagesWriteOwnFields ==
    [][ /\ pc # "classify_alert" =>
              UNCHANGED <<raw_event, alert_type, alert_metadata, slack_channel>>
        /\ pc = "gather_context" =>
              UNCHANGED <<analysis_result, slack_message, error>>
        /\ pc = "analyze_with_llm" =>
              UNCHANGED <<context, slack_message, error>>
        /\ pc = "format_response" =>
              UNCHANGED <<context, analysis_result, error>>
        /\ pc = "post_to_slack" =>
              UNCHANGED <<context, analysis_result, slack_message>>
        /\ pc \in {"END", "raised"} =>
              UNCHANGED <<context, analysis_result, slack_message, error>>
        /\ pc \in {"classify_alert", "gather_context", "analyze_with_llm",
                   "format_response"} => error = "None" /\ error' = "None"
      ]_vars

\* C30 happens: every stage wrote its field and the dispatcher recorded the
\* only error of the run
C30_Witness ==
    /\ pc = "END"
    /\ context # None
    /\ analysis_result # None
    /\ slack_message # None
    /\ error = "Slack API error: 404"

====
